---- MODULE Spec2Model ----
(***************************************************************************)
(* A model of the Design-Patterns repository: the Observer demonstration   *)
(* (NotifierSubject, src/unnamed/part_003, with the try/catch notify of    *)
(* src/unnamed/part_000) and the Registry demonstration                    *)
(* (src/registry-pattern.ts).                                              *)
(***************************************************************************)
EXTENDS Integers, Sequences, FiniteSets, TLC

(***************************************************************************)
(* Bounds and input domains.                                               *)
(***************************************************************************)
\* How many handlers the Registry constructor is given, at most.
MaxAnimals == 2
\* How many Registry.speak calls a run makes, at most.
MaxCalls == 2
\* How many register and unregister calls a run of the dynamic-registration
\* Registry makes, at most.
MaxMutations == 2
\* How many getKeys calls a run makes, at most.
MaxListings == 2
\* How many Logger.getInstance calls a run makes, at most.
MaxGets == 3
\* How many lines a run writes with Logger.log, at most.
MaxLogs == 3
\* How many Logger.reset calls a run makes, at most.
MaxResets == 2
\* How many threads call the lock-guarded Logger.getInstance.
NumThreads == 2
\* How many UploadService calls a run makes, at most.
MaxUploadCalls == 2

\* The Observer objects handed to the subject (identity = name).
Listeners == {"Dat", "Cuong", "Linh"}
\* The (event, data.content) pairs passed to notify.
Payloads == {<<"new noti", "Hello">>, <<"alert", "After unsubscribe">>}

VARIABLES
    observers,  \* NotifierSubject.observers: contents of the array it refers to
    stack,      \* the notify calls in progress, innermost last
    removed,    \* history: listeners whose latest subscribe/unsubscribe call was unsubscribe
    lastOp,     \* history: the call or step taken last
    ended,      \* history: the notify call that the step taken last ended by a throw
    animals,    \* the arguments the Registry constructor was given
    handlers,   \* Registry.handlers: a plain object (own properties and prototype)
    calls,      \* the Registry.speak calls made, in call order
    console,    \* the lines written with console.log by the Registry program
    lastReg,    \* history: the constructor, register or unregister call made last
    unregistered, \* history: keys whose latest register/unregister call was unregister
    mutations,  \* the number of register and unregister calls made
    listed,     \* history: the getKeys calls made, with their results
    instance,   \* Logger.instance (static)
    lock,       \* Logger.lock (static, lock-guarded variant)
    constructed, \* history: how many times `new Logger()` ran
    results,    \* history: the values the getInstance calls returned, in return order
    epochs,     \* history: for each result, how many reset calls had been made before it
    resets,     \* the number of Logger.reset calls made
    pc,         \* where each thread is in the lock-guarded getInstance
    logs,       \* the lines written by Logger.log, with the result and instance they were called on
    uploads     \* history: the UploadService calls made, with their outcomes

obsVars == <<observers, stack, removed, lastOp, ended>>
regHist == <<lastReg, unregistered, mutations, listed>>
regVars == <<animals, handlers, calls, console, regHist>>
logVars == <<instance, lock, constructed, results, epochs, resets, pc, logs>>
upVars == <<uploads>>
vars == <<obsVars, regVars, logVars, upVars>>
\* what the operations of NotifierSubject leave alone
notObserver == <<regVars, logVars, upVars>>
\* what the operations of Registry leave alone
notRegistry == <<obsVars, logVars, upVars>>
\* what the operations of Logger leave alone
notLogger == <<obsVars, regVars, upVars>>
\* what the operations of UploadService leave alone
notUpload == <<obsVars, regVars, logVars>>

(***************************************************************************)
(* Arrays (1-based sequences standing for JavaScript arrays).              *)
(***************************************************************************)
Range(s) == {s[i] : i \in DOMAIN s}

\* Array.prototype.includes, by identity
includes(arr, x) == \E i \in DOMAIN arr : arr[i] = x

\* Array.prototype.filter(o => o !== x): a NEW array
RECURSIVE filterOut(_, _)
filterOut(arr, x) ==
    IF arr = <<>> THEN <<>>
    ELSE IF Head(arr) # x THEN <<Head(arr)>> \o filterOut(Tail(arr), x)
    ELSE filterOut(Tail(arr), x)

\* subscribe that puts a new listener first (unshift)
subscribedFirst(arr, observer) ==
    IF ~includes(arr, observer) THEN <<observer>> \o arr ELSE arr

\* subscribe without its includes check
subscribedAlways(arr, observer) == Append(arr, observer)

\* what subscribe leaves in the array this.observers refers to
subscribed(arr, observer) ==
    IF ~includes(arr, observer) THEN Append(arr, observer) ELSE arr

\* unsubscribe whose filter keeps everything
unsubscribedNothing(arr, observer) == arr

\* the array unsubscribe assigns to this.observers
unsubscribed(arr, observer) == filterOut(arr, observer)

(***************************************************************************)
(* A notify call in progress.  `for (const observer of this.observers)`    *)
(* evaluates this.observers once and iterates that array object with a     *)
(* live index: arr is the contents of that object, shared says that it is  *)
(* still the object this.observers refers to (push reaches it), idx is the *)
(* iterator's next index.  An array that this.observers no longer refers   *)
(* to is never written again.                                              *)
(* entry, out, gone and early are history: the array contents at entry,    *)
(* what the call did (update calls and console.error lines), the           *)
(* listeners that were unsubscribed at entry and not subscribed since, and *)
(* the entry listeners unsubscribed during the call before their update.   *)
(***************************************************************************)
NoOp == [op |-> "init", arg |-> "", variant |-> "", before |-> <<>>]

\* no notify call was ended by the step taken last
NoCall == [variant |-> "none"]

NewFrame(variant, event, content) ==
    [variant |-> variant, event |-> event, content |-> content,
     arr |-> observers, shared |-> TRUE, idx |-> 0, pc |-> "loop",
     entry |-> observers, out |-> <<>>, gone |-> removed, early |-> {}]

Top == stack[Len(stack)]
Outer == SubSeq(stack, 1, Len(stack) - 1)

\* the update calls a frame has made, in order
IsUpdate(e) == e.t = "update"
Deliveries(f) == SelectSeq(f.out, IsUpdate)
DeliveredTo(f) == {Deliveries(f)[i].to : i \in DOMAIN Deliveries(f)}
Count(f, l) == Cardinality({i \in DOMAIN Deliveries(f) : Deliveries(f)[i].to = l})
\* the listener whose update a frame is running: the one it called last
Cur(f) == Deliveries(f)[Len(Deliveries(f))].to

\* a fresh NotifierSubject: observers = []
ObserverIdle ==
    /\ observers = <<>>
    /\ stack = <<>>
    /\ removed = {}
    /\ lastOp = NoOp
    /\ ended = NoCall

\* the JavaScript value undefined (an unset static field, a missing property)
Undefined == [t |-> "undefined"]

\* The threads that call the lock-guarded getInstance.
Threads == 1..NumThreads

\* the Logger class is loaded, no call made yet
LoggerIdle ==
    /\ instance = Undefined
    /\ lock = FALSE
    /\ constructed = 0
    /\ results = <<>>
    /\ epochs = <<>>
    /\ resets = 0
    /\ pc = [t \in Threads |-> "idle"]
    /\ logs = <<>>

\* uploadService is constructed, no call made yet
UploadIdle == uploads = <<>>

(***************************************************************************)
(* Registry (src/registry-pattern.ts).                                     *)
(* JavaScript values are records tagged with t.                            *)
(***************************************************************************)
ObjectPrototype == [t |-> "object", id |-> "Object.prototype"]

\* Dog and Cat of the source, and three more Animal implementations as inputs:
\* one that has Dog's key, one whose key is "__proto__", and one whose speak
\* fails (the promise it returns rejects with the handler's own error).
Dog == [t |-> "animal", id |-> "dog", key |-> "dog", sound |-> "gau gau", fails |-> FALSE]
Cat == [t |-> "animal", id |-> "cat", key |-> "cat", sound |-> "meo meo", fails |-> FALSE]
Pup == [t |-> "animal", id |-> "pup", key |-> "dog", sound |-> "gau gau gau", fails |-> FALSE]
Imp == [t |-> "animal", id |-> "imp", key |-> "__proto__", sound |-> "hi hi", fails |-> FALSE]
Bird == [t |-> "animal", id |-> "bird", key |-> "bird", sound |-> "", fails |-> TRUE]
AnimalPool == {Dog, Cat, Pup, Imp, Bird}

\* what handler.speak() does when called: the lines it logs and the promise
\* it returns
Says(handler) == IF handler.fails THEN <<>> ELSE <<handler.sound>>
ErrorOf(handler) == [t |-> "Error", id |-> handler.id]
SpeakPromise(handler) ==
    IF handler.fails
    THEN [state |-> "rejected", value |-> ErrorOf(handler)]
    ELSE [state |-> "fulfilled", value |-> Undefined]
NoPromise == [state |-> "none", value |-> Undefined]

\* The keys speak is called with.
Keys == {"dog", "cat", "bird", "toString", "__proto__", "speak"}

\* Some of the property names every plain object inherits.
ObjectPrototypeNames == {"toString", "constructor"}

\* handlers = {}
\* (order: the own property names in the order they were created)
EmptyObject == [own |-> <<>>, order |-> <<>>, proto |-> ObjectPrototype]

OwnKeys(obj) == DOMAIN obj.own

\* an assignment that keeps a property the object already has
SetPropIfAbsent(obj, key, value) ==
    IF key = "__proto__"
    THEN [obj EXCEPT !.proto = IF @.t = "animal" THEN @ ELSE value]
    ELSE [obj EXCEPT !.own = [k \in (DOMAIN obj.own) \cup {key} |->
                                 IF k \in DOMAIN obj.own THEN obj.own[k] ELSE value],
                     !.order = IF key \in DOMAIN obj.own THEN @ ELSE Append(@, key)]

\* obj[key] = value (the __proto__ setter replaces the prototype)
SetProp(obj, key, value) ==
    IF key = "__proto__"
    THEN [obj EXCEPT !.proto = value]
    ELSE [obj EXCEPT !.own = [k \in (DOMAIN obj.own) \cup {key} |->
                                 IF k = key THEN value ELSE obj.own[k]],
                     !.order = IF key \in DOMAIN obj.own THEN @ ELSE Append(@, key)]

\* a property read that reaches Object.prototype
ObjectPrototypeGet(key) ==
    IF key \in ObjectPrototypeNames
    THEN [t |-> "function", id |-> key] ELSE Undefined

\* a property read on the object's prototype
ProtoGet(proto, key) ==
    IF proto.t = "animal" /\ key = "key" THEN [t |-> "string", id |-> proto.key]
    ELSE IF proto.t = "animal" /\ key = "speak" THEN [t |-> "function", id |-> "speak"]
    ELSE ObjectPrototypeGet(key)

\* obj[key]
GetProp(obj, key) ==
    IF key = "__proto__" THEN obj.proto
    ELSE IF key \in DOMAIN obj.own THEN obj.own[key]
    ELSE ProtoGet(obj.proto, key)

\* !value, for the values above (none is an empty string)
Falsy(value) == value.t \in {"undefined", "null"}

\* animals.forEach(a => (this.handlers[a.key] = a))
RECURSIVE forEachRegister(_, _)
forEachRegister(obj, as) ==
    IF as = <<>> THEN obj
    ELSE forEachRegister(SetProp(obj, Head(as).key, Head(as)), Tail(as))

\* new Registry(...animals)
Registry(as) == forEachRegister(EmptyObject, as)

\* the constructor call, as the call made last
Constructed(threw) ==
    [op |-> "constructor", key |-> "", id |-> "", before |-> EmptyObject, threw |-> threw]

NoMutation ==
    /\ lastReg = Constructed(FALSE)
    /\ unregistered = {}
    /\ mutations = 0
    /\ listed = <<>>

RegistryIdle ==
    /\ animals = <<>>
    /\ handlers = Registry(<<>>)
    /\ calls = <<>>
    /\ console = <<>>
    /\ NoMutation

BoundedSeq(S, n) == UNION {[1..k -> S] : k \in 0..n}

InitRegistry ==
    /\ ObserverIdle
    /\ LoggerIdle
    /\ UploadIdle
    /\ animals \in BoundedSeq(AnimalPool, MaxAnimals)
    /\ handlers = Registry(animals)
    /\ calls = <<>>
    /\ console = <<>>
    /\ NoMutation

\* a lookup that ignores the key
lookupAny(key) ==
    IF OwnKeys(handlers) = {} THEN Undefined
    ELSE handlers.own[CHOOSE k \in OwnKeys(handlers) : TRUE]

\* the value of `this.handlers[key]` in speak
lookup(key) == GetProp(handlers, key)

\* a speak that returns a not-found value
speakOutcomeTyped(key) ==
    LET handler == lookup(key) IN
    IF Falsy(handler)
    THEN [key |-> key, state |-> "fulfilled", value |-> [t |-> "string", id |-> "not found"],
          invoked |-> <<>>, logged |-> <<"handler not found!">>, promise |-> NoPromise]
    ELSE IF handler.t = "animal"
    THEN [key |-> key, state |-> "awaiting", value |-> Undefined,
          invoked |-> <<handler.id>>, logged |-> Says(handler), promise |-> SpeakPromise(handler)]
    ELSE [key |-> key, state |-> "rejected",
          value |-> [t |-> "TypeError", id |-> "handler.speak is not a function"],
          invoked |-> <<>>, logged |-> <<>>, promise |-> NoPromise]

\* what one speak call does up to its first await (or to its end): the call's
\* record and the lines it logs
speakOutcome(key) ==
    LET handler == lookup(key) IN
    IF Falsy(handler)
    THEN [key |-> key, state |-> "fulfilled", value |-> Undefined,
          invoked |-> <<>>, logged |-> <<"handler not found!">>, promise |-> NoPromise]
    ELSE IF handler.t = "animal"
    THEN [key |-> key, state |-> "awaiting", value |-> Undefined,
          invoked |-> <<handler.id>>, logged |-> Says(handler), promise |-> SpeakPromise(handler)]
    ELSE \* handler.speak is undefined: calling it throws inside the async function
         [key |-> key, state |-> "rejected",
          value |-> [t |-> "TypeError", id |-> "handler.speak is not a function"],
          invoked |-> <<>>, logged |-> <<>>, promise |-> NoPromise]

\* a speak whose output is put before the output already written
speakOutputFirst(key) ==
    /\ Len(calls) < MaxCalls
    /\ calls' = Append(calls, speakOutcome(key))
    /\ console' = speakOutcome(key).logged \o console
    /\ UNCHANGED <<animals, handlers, regHist, notRegistry>>

\* registry.speak(key), up to the await
speak(key) ==
    /\ Len(calls) < MaxCalls
    /\ calls' = Append(calls, speakOutcome(key))
    /\ console' = console \o speakOutcome(key).logged
    /\ UNCHANGED <<animals, handlers, regHist, notRegistry>>

\* the continuation after `await handler.speak()`: the awaited promises are
\* already settled, so continuations run in the order of the awaits
Awaiting == {i \in DOMAIN calls : calls[i].state = "awaiting"}

\* a continuation that reads this.handlers[key] again and goes by what it finds
speakResumeRelookup ==
    /\ Awaiting # {}
    /\ LET i == CHOOSE j \in Awaiting : \A k \in Awaiting : j <= k
           now == GetProp(handlers, calls[i].key)
       IN calls' = [calls EXCEPT
                      ![i].state = IF now.t = "animal" THEN SpeakPromise(now).state ELSE "rejected",
                      ![i].value = IF now.t = "animal" THEN SpeakPromise(now).value
                                   ELSE [t |-> "Error", id |-> "not found"],
                      ![i].invoked = IF now.t = "animal" THEN <<now.id>> ELSE <<>>]
    /\ UNCHANGED <<animals, handlers, console, regHist, notRegistry>>

\* a continuation that catches what the awaited promise rejected with
speakResumeSwallow ==
    /\ Awaiting # {}
    /\ LET i == CHOOSE j \in Awaiting : \A k \in Awaiting : j <= k
       IN calls' = [calls EXCEPT ![i].state = "fulfilled"]
    /\ UNCHANGED <<animals, handlers, console, regHist, notRegistry>>

\* speak has no try/catch: a rejection of the awaited promise is thrown at the
\* await and rejects speak's own promise with the same value
speakResume ==
    /\ Awaiting # {}
    /\ LET i == CHOOSE j \in Awaiting : \A k \in Awaiting : j <= k
       IN calls' = [calls EXCEPT ![i].state = calls[i].promise.state,
                                 ![i].value = calls[i].promise.value]
    /\ UNCHANGED <<animals, handlers, console, regHist, notRegistry>>

NextRegistry ==
    \/ \E key \in Keys : speak(key)
    \/ speakResume

SpecRegistry == InitRegistry /\ [][NextRegistry]_vars


(***************************************************************************)
(* Registry with dynamic registration (src/unnamed/part_002, 141-172).     *)
(* It uses handlers, calls and console as the baseline Registry does; a    *)
(* call's record also keeps, as history, handlers as it was at the call    *)
(* (entry), whether the key's latest register/unregister call was          *)
(* unregister (unregd), and how many register and unregister calls changed *)
(* the key while the call was awaiting (during).                           *)
(***************************************************************************)
\* a register that overwrites
registeredOverwrite(obj, animal) ==
    [obj |-> SetProp(obj, animal.key, animal), threw |-> FALSE]

\* register(animal): the object afterwards and whether the call threw
registered(obj, animal) ==
    IF ~Falsy(GetProp(obj, animal.key))
    THEN [obj |-> obj, threw |-> TRUE]
    ELSE [obj |-> SetProp(obj, animal.key, animal), threw |-> FALSE]

\* delete obj[key]: removes an own property; nothing else, and never throws
DeleteProp(obj, key) ==
    [obj EXCEPT !.own = [k \in (DOMAIN obj.own) \ {key} |-> obj.own[k]],
                !.order = filterOut(@, key)]

\* animals.forEach(a => this.register(a)): stops at the first throw
RECURSIVE forEachRegisterStrict(_, _)
forEachRegisterStrict(obj, as) ==
    IF as = <<>> THEN [obj |-> obj, threw |-> FALSE]
    ELSE IF registered(obj, Head(as)).threw THEN [obj |-> obj, threw |-> TRUE]
    ELSE forEachRegisterStrict(registered(obj, Head(as)).obj, Tail(as))

\* new Registry(...animals) of the dynamic-registration variant
RegistryStrict(as) == forEachRegisterStrict(EmptyObject, as)

\* the constructor returned (when it throws there is no Registry to call)
Built == ~(lastReg.op = "constructor" /\ lastReg.threw)

InitRegistryStrict ==
    /\ ObserverIdle
    /\ LoggerIdle
    /\ UploadIdle
    /\ animals \in BoundedSeq(AnimalPool, MaxAnimals)
    /\ handlers = RegistryStrict(animals).obj
    /\ lastReg = Constructed(RegistryStrict(animals).threw)
    /\ unregistered = {}
    /\ mutations = 0
    /\ listed = <<>>
    /\ calls = <<>>
    /\ console = <<>>

\* history: the awaiting calls for this key see one more change of the key
Noted(key) ==
    [i \in 1..Len(calls) |->
        IF calls[i].key = key /\ calls[i].state = "awaiting"
        THEN [calls[i] EXCEPT !.during = @ + 1] ELSE calls[i]]

register(animal) ==
    /\ Built
    /\ mutations < MaxMutations
    /\ mutations' = mutations + 1
    /\ handlers' = registered(handlers, animal).obj
    /\ lastReg' = [op |-> "register", key |-> animal.key, id |-> animal.id,
                   before |-> handlers, threw |-> registered(handlers, animal).threw]
    /\ unregistered' = IF registered(handlers, animal).threw
                       THEN unregistered ELSE unregistered \ {animal.key}
    /\ calls' = IF registered(handlers, animal).threw THEN calls ELSE Noted(animal.key)
    /\ UNCHANGED <<animals, console, listed, notRegistry>>

unregister(key) ==
    /\ Built
    /\ mutations < MaxMutations
    /\ mutations' = mutations + 1
    /\ handlers' = DeleteProp(handlers, key)
    /\ lastReg' = [op |-> "unregister", key |-> key, id |-> "",
                   before |-> handlers, threw |-> FALSE]
    /\ unregistered' = unregistered \cup {key}
    /\ calls' = IF key \in OwnKeys(handlers) THEN Noted(key) ELSE calls
    /\ UNCHANGED <<animals, console, listed, notRegistry>>

NotFoundError(key) == [t |-> "Error", id |-> <<"Handler with key not found", key>>]

\* what one speak call of this variant does up to its first await (or to its
\* end, when it throws before)
speakStrictOutcome(key) ==
    LET handler == lookup(key)
        call == [key |-> key, entry |-> handlers, unregd |-> key \in unregistered,
                 during |-> 0, logged |-> <<>>, invoked |-> <<>>, promise |-> NoPromise,
                 state |-> "rejected", value |-> Undefined]
    IN
    IF Falsy(handler)
    THEN [call EXCEPT !.value = NotFoundError(key)]
    ELSE IF handler.t = "animal"
    THEN [call EXCEPT !.state = "awaiting", !.invoked = <<handler.id>>,
                      !.logged = Says(handler), !.promise = SpeakPromise(handler)]
    ELSE [call EXCEPT !.value = [t |-> "TypeError", id |-> "handler.speak is not a function"]]

\* registry.speak(key) of this variant, up to the await
speakStrict(key) ==
    /\ Built
    /\ Len(calls) < MaxCalls
    /\ calls' = Append(calls, speakStrictOutcome(key))
    /\ console' = console \o speakStrictOutcome(key).logged
    /\ UNCHANGED <<animals, handlers, regHist, notRegistry>>

NextRegistryStrict ==
    \/ \E animal \in AnimalPool : register(animal)
    \/ \E key \in Keys : unregister(key)
    \/ \E key \in Keys : speakStrict(key)
    \/ speakResume

SpecRegistryStrict == InitRegistryStrict /\ [][NextRegistryStrict]_vars


\* Two more Animal implementations as inputs of the key listing: their keys
\* are canonical array indices.
One == [t |-> "animal", id |-> "one", key |-> "1", sound |-> "mot", fails |-> FALSE]
Two == [t |-> "animal", id |-> "two", key |-> "2", sound |-> "hai", fails |-> FALSE]
ListedPool == {Dog, Cat, One, Two}
\* The keys unregister is called with in the key listing.
ListedKeys == {"dog", "cat", "1", "2", "toString"}

\* the number a property name stands for when it is a canonical array index,
\* -1 when it is not
ArrayIndex(key) == IF key = "1" THEN 1 ELSE IF key = "2" THEN 2 ELSE -1

\* a set of array-index names in ascending numeric order
RECURSIVE Ascending(_)
Ascending(S) ==
    IF S = {} THEN <<>>
    ELSE LET least == CHOOSE k \in S : \A j \in S : ArrayIndex(k) <= ArrayIndex(j)
         IN <<least>> \o Ascending(S \ {least})

\* the names of a sequence that are not array indices, in the sequence's order
RECURSIVE NamedOnly(_)
NamedOnly(names) ==
    IF names = <<>> THEN <<>>
    ELSE IF ArrayIndex(Head(names)) < 0 THEN <<Head(names)>> \o NamedOnly(Tail(names))
    ELSE NamedOnly(Tail(names))

\* Object.keys(obj): the own property names, array indices first in ascending
\* numeric order, then the other names in creation order
ObjectKeys(obj) ==
    Ascending({k \in OwnKeys(obj) : ArrayIndex(k) >= 0}) \o NamedOnly(obj.order)

InitRegistryKeys ==
    /\ ObserverIdle
    /\ LoggerIdle
    /\ UploadIdle
    /\ animals \in BoundedSeq(ListedPool, MaxAnimals)
    /\ handlers = RegistryStrict(animals).obj
    /\ lastReg = Constructed(RegistryStrict(animals).threw)
    /\ unregistered = {}
    /\ mutations = 0
    /\ listed = <<>>
    /\ calls = <<>>
    /\ console = <<>>

\* registry.getKeys()
getKeys ==
    /\ Built
    /\ Len(listed) < MaxListings
    /\ listed' = Append(listed, [keys |-> ObjectKeys(handlers), entry |-> handlers,
                                 at |-> mutations])
    /\ UNCHANGED <<animals, handlers, calls, console, lastReg, unregistered, mutations,
                   notRegistry>>

NextRegistryKeys ==
    \/ \E animal \in ListedPool : register(animal)
    \/ \E key \in ListedKeys : unregister(key)
    \/ getKeys

SpecRegistryKeys == InitRegistryKeys /\ [][NextRegistryKeys]_vars


(***************************************************************************)
(* Logger (src/unnamed/part_004) and its lock-guarded getInstance          *)
(* (src/singleton-pattern.md, 128-148).                                    *)
(***************************************************************************)
\* The messages passed to log.
Messages == {"Server started", "User logged in"}

\* new Logger(): the object is identified by its construction number
NewLogger == [t |-> "Logger", id |-> constructed + 1]

InitLogger ==
    /\ ObserverIdle
    /\ RegistryIdle
    /\ LoggerIdle
    /\ UploadIdle

\* a getInstance that constructs on every call
getInstanceAlwaysNew ==
    /\ Len(results) < MaxGets
    /\ instance' = NewLogger
    /\ constructed' = constructed + 1
    /\ results' = Append(results, instance')
    /\ epochs' = Append(epochs, resets)
    /\ UNCHANGED <<lock, resets, pc, logs, notLogger>>

\* Logger.getInstance() (part_004): one call, run to its return
getInstance ==
    /\ Len(results) < MaxGets
    /\ instance' = IF Falsy(instance) THEN NewLogger ELSE instance
    /\ constructed' = IF Falsy(instance) THEN constructed + 1 ELSE constructed
    /\ results' = Append(results, instance')
    /\ epochs' = Append(epochs, resets)
    /\ UNCHANGED <<lock, resets, pc, logs, notLogger>>

\* results[i].log(message): called on the value a getInstance call returned
log(i, message) ==
    /\ Len(logs) < MaxLogs
    /\ i \in DOMAIN results
    /\ results[i].t = "Logger"
    /\ logs' = Append(logs, [via |-> i, on |-> results[i].id, line |-> <<"[LOG]: ", message>>])
    /\ UNCHANGED <<instance, lock, constructed, results, epochs, resets, pc, notLogger>>

NextLogger ==
    \/ getInstance
    \/ \E i \in 1..MaxGets, message \in Messages : log(i, message)

SpecLogger == InitLogger /\ [][NextLogger]_vars

(***************************************************************************)
(* Logger with reset (src/singleton-pattern.md, 205-228): getInstance and  *)
(* log are those of part_004.                                              *)
(***************************************************************************)
\* the JavaScript value null
Null == [t |-> "null"]

\* a reset that leaves Logger.instance as it is
resetNothing ==
    /\ resets < MaxResets
    /\ resets' = resets + 1
    /\ UNCHANGED <<instance, lock, constructed, results, epochs, pc, logs, notLogger>>

\* Logger.reset()
reset ==
    /\ resets < MaxResets
    /\ resets' = resets + 1
    /\ instance' = Null
    /\ UNCHANGED <<lock, constructed, results, epochs, pc, logs, notLogger>>

NextLoggerReset ==
    \/ getInstance
    \/ reset
    \/ \E i \in 1..MaxGets, message \in Messages : log(i, message)

SpecLoggerReset == InitLogger /\ [][NextLoggerReset]_vars

(***************************************************************************)
(* The lock-guarded getInstance (src/singleton-pattern.md, 128-148).       *)
(***************************************************************************)
\* The lock-guarded getInstance, one thread step per read or write of a static
\* field.  A thread is idle (not in a call) or about to run the step its pc
\* names.
Running == {t \in Threads : pc[t] # "idle"}

\* `if (!Logger.instance)`: the call starts with the outer check
getInstanceCheck(t) ==
    /\ pc[t] = "idle"
    /\ Len(results) + Cardinality(Running) < MaxGets
    /\ pc' = [pc EXCEPT ![t] = IF Falsy(instance) THEN "checkLock" ELSE "return"]
    /\ UNCHANGED <<instance, lock, constructed, results, epochs, resets, logs, notLogger>>

\* `if (!Logger.lock)`
getInstanceCheckLock(t) ==
    /\ pc[t] = "checkLock"
    /\ pc' = [pc EXCEPT ![t] = IF ~lock THEN "lock" ELSE "return"]
    /\ UNCHANGED <<instance, lock, constructed, results, epochs, resets, logs, notLogger>>

\* `Logger.lock = true`
getInstanceLock(t) ==
    /\ pc[t] = "lock"
    /\ lock' = TRUE
    /\ pc' = [pc EXCEPT ![t] = "new"]
    /\ UNCHANGED <<instance, constructed, results, epochs, resets, logs, notLogger>>

\* `Logger.instance = new Logger()`
getInstanceNew(t) ==
    /\ pc[t] = "new"
    /\ instance' = NewLogger
    /\ constructed' = constructed + 1
    /\ pc' = [pc EXCEPT ![t] = "unlock"]
    /\ UNCHANGED <<lock, results, epochs, resets, logs, notLogger>>

\* `Logger.lock = false`
getInstanceUnlock(t) ==
    /\ pc[t] = "unlock"
    /\ lock' = FALSE
    /\ pc' = [pc EXCEPT ![t] = "return"]
    /\ UNCHANGED <<instance, constructed, results, epochs, resets, logs, notLogger>>

\* `return Logger.instance`
getInstanceReturn(t) ==
    /\ pc[t] = "return"
    /\ results' = Append(results, instance)
    /\ epochs' = Append(epochs, resets)
    /\ pc' = [pc EXCEPT ![t] = "idle"]
    /\ UNCHANGED <<instance, lock, constructed, resets, logs, notLogger>>

NextLoggerThreads ==
    \E t \in Threads :
        \/ getInstanceCheck(t)
        \/ getInstanceCheckLock(t)
        \/ getInstanceLock(t)
        \/ getInstanceNew(t)
        \/ getInstanceUnlock(t)
        \/ getInstanceReturn(t)

SpecLoggerThreads == InitLogger /\ [][NextLoggerThreads]_vars


(***************************************************************************)
(* UploadService (src/unnamed/part_001).                                   *)
(***************************************************************************)
\* the two strategy objects injected into uploadService
localUpload == [t |-> "LocalUpload"]
s3Upload == [t |-> "S3Upload"]

\* The type strings getStrategy and upload are called with.
Types == {"local", "s3", "S3", "ftp", ""}

\* The files upload is called with: one with a filename, the source's file
\* (which has a name and no filename), and undefined.
Files == {[t |-> "object", filename |-> "a.png"], [t |-> "object", name |-> "file 1"], Undefined}

Returned(value) == [threw |-> FALSE, value |-> value]
Thrown(value) == [threw |-> TRUE, value |-> value]

\* the string a + b
Concat(a, b) == [t |-> "string", id |-> <<a, b>>]

\* String(file.filename): a missing property reads as undefined
Filename(file) == IF "filename" \in DOMAIN file THEN file.filename ELSE "undefined"

\* strategy.upload(file): prefix + file.filename; reading a property of
\* undefined throws a TypeError
strategyUpload(strategy, file) ==
    IF file.t = "undefined"
    THEN Thrown([t |-> "TypeError", id |-> "Cannot read properties of undefined"])
    ELSE IF strategy.t = "LocalUpload"
    THEN Returned(Concat("/uploads/", Filename(file)))
    ELSE Returned(Concat("https://s3.amazonaws.com/bucket/", Filename(file)))

\* a getStrategy whose default case falls back to the local strategy
getStrategyOrLocal(type) ==
    IF type = "s3" THEN Returned(s3Upload) ELSE Returned(localUpload)

\* getStrategy(type): the switch compares with ===
getStrategyOutcome(type) ==
    IF type = "local" THEN Returned(localUpload)
    ELSE IF type = "s3" THEN Returned(s3Upload)
    ELSE Thrown([t |-> "Error", id |-> "Invalid type"])

\* upload(key, file): what it returns or throws, and the strategies whose
\* upload it called
uploadOutcome(key, file) ==
    LET strategy == getStrategyOutcome(key) IN
    IF strategy.threw
    THEN [threw |-> TRUE, value |-> strategy.value, invoked |-> <<>>]
    ELSE [threw |-> strategyUpload(strategy.value, file).threw,
          value |-> strategyUpload(strategy.value, file).value,
          invoked |-> <<strategy.value>>]

InitUpload ==
    /\ ObserverIdle
    /\ RegistryIdle
    /\ LoggerIdle
    /\ UploadIdle

\* uploadService.getStrategy(type)
getStrategy(type) ==
    /\ Len(uploads) < MaxUploadCalls
    /\ uploads' = Append(uploads, [op |-> "getStrategy", type |-> type, file |-> Undefined,
                                   threw |-> getStrategyOutcome(type).threw,
                                   value |-> getStrategyOutcome(type).value,
                                   invoked |-> <<>>])
    /\ UNCHANGED notUpload

\* uploadService.upload(key, file)
upload(key, file) ==
    /\ Len(uploads) < MaxUploadCalls
    /\ uploads' = Append(uploads, [op |-> "upload", type |-> key, file |-> file,
                                   threw |-> uploadOutcome(key, file).threw,
                                   value |-> uploadOutcome(key, file).value,
                                   invoked |-> uploadOutcome(key, file).invoked])
    /\ UNCHANGED notUpload

NextUpload ==
    \/ \E type \in Types : getStrategy(type)
    \/ \E key \in Types, file \in Files : upload(key, file)

SpecUpload == InitUpload /\ [][NextUpload]_vars


(***************************************************************************)
(* NotifierSubject's operations.                                           *)
(***************************************************************************)
\* subscribe and unsubscribe are called by the application (no notify in
\* progress) or by the listener whose update is running; notify is called by
\* the application only (listeners here do not call notify re-entrantly)
CanCall == IF Len(stack) = 0 THEN TRUE ELSE Top.pc = "update"

InitObserver ==
    /\ ObserverIdle
    /\ RegistryIdle
    /\ LoggerIdle
    /\ UploadIdle

subscribe(observer) ==
    /\ CanCall
    /\ observers' = subscribed(observers, observer)
    /\ stack' = [i \in 1..Len(stack) |->
                    [stack[i] EXCEPT
                        !.arr = IF stack[i].shared THEN subscribed(@, observer) ELSE @,
                        !.gone = @ \ {observer}]]
    /\ removed' = removed \ {observer}
    /\ lastOp' = [op |-> "subscribe", arg |-> observer, variant |-> "", before |-> observers]
    /\ ended' = NoCall
    /\ UNCHANGED notObserver

\* unsubscribe that removes in place (splice) from the array being iterated
unsubscribeInPlace(observer) ==
    /\ CanCall
    /\ observers' = unsubscribed(observers, observer)
    /\ stack' = [i \in 1..Len(stack) |->
                    [stack[i] EXCEPT
                        !.arr = IF stack[i].shared THEN unsubscribed(@, observer) ELSE @,
                        !.early = IF includes(stack[i].entry, observer)
                                     /\ observer \notin DeliveredTo(stack[i])
                                  THEN @ \cup {observer} ELSE @]]
    /\ removed' = removed \cup {observer}
    /\ lastOp' = [op |-> "unsubscribe", arg |-> observer, variant |-> "", before |-> observers]
    /\ ended' = NoCall
    /\ UNCHANGED notObserver

unsubscribe(observer) ==
    /\ CanCall
    /\ observers' = unsubscribed(observers, observer)
    /\ stack' = [i \in 1..Len(stack) |->
                    [stack[i] EXCEPT
                        !.shared = FALSE,
                        !.early = IF includes(stack[i].entry, observer)
                                     /\ observer \notin DeliveredTo(stack[i])
                                  THEN @ \cup {observer} ELSE @]]
    /\ removed' = removed \cup {observer}
    /\ lastOp' = [op |-> "unsubscribe", arg |-> observer, variant |-> "", before |-> observers]
    /\ ended' = NoCall
    /\ UNCHANGED notObserver

\* notify is entered: the loop's iterator is created over this.observers
notifyEnter(variant, event, content) ==
    /\ CanCall
    /\ Len(stack) = 0
    /\ stack' = Append(stack, NewFrame(variant, event, content))
    /\ lastOp' = [op |-> "notify", arg |-> "", variant |-> variant, before |-> <<>>]
    /\ ended' = NoCall
    /\ UNCHANGED <<observers, removed, notObserver>>

\* baseline notify (part_003)
notify(event, content) == notifyEnter("baseline", event, content)

\* notify with try/catch (part_000)
notifyCatching(event, content) == notifyEnter("catching", event, content)

\* an iteration from the end of the array
iterNextReverse(f) == f.arr[Len(f.arr) - f.idx]

\* the element the array iterator yields next
iterNext(f) == f.arr[f.idx + 1]

\* one iteration: the iterator yields the next element, update is called on it
notifyNext ==
    /\ Len(stack) > 0
    /\ Top.pc = "loop"
    /\ Top.idx < Len(Top.arr)
    /\ LET f == Top
           o == iterNext(f)
       IN /\ stack' = Outer \o
                <<[f EXCEPT !.idx = @ + 1, !.pc = "update",
                            !.out = Append(@, [t |-> "update", to |-> o,
                                               event |-> f.event, content |-> f.content])]>>
          /\ lastOp' = [op |-> "update", arg |-> o, variant |-> f.variant, before |-> <<>>]
    /\ ended' = NoCall
    /\ UNCHANGED <<observers, removed, notObserver>>

\* the running update returns
updateReturn ==
    /\ Len(stack) > 0
    /\ Top.pc = "update"
    /\ stack' = Outer \o
          <<[Top EXCEPT !.pc = "loop",
                        !.out = Append(@, [t |-> "returned", to |-> Cur(Top)])]>>
    /\ lastOp' = [op |-> "updateReturn", arg |-> Cur(Top), variant |-> Top.variant, before |-> <<>>]
    /\ ended' = NoCall
    /\ UNCHANGED <<observers, removed, notObserver>>

\* a notify that drops the listener whose update threw before it rethrows
updateThrowBaselineDrop ==
    /\ Len(stack) > 0
    /\ Top.pc = "update"
    /\ Top.variant = "baseline"
    /\ stack' = Outer
    /\ observers' = unsubscribed(observers, Cur(Top))
    /\ lastOp' = [op |-> "notifyThrow", arg |-> Cur(Top), variant |-> Top.variant, before |-> observers]
    /\ ended' = Top
    /\ UNCHANGED <<removed, notObserver>>

\* the running update throws; baseline notify has no handler, so the exception
\* leaves notify (into the caller: the application, or the update that called it)
updateThrowBaseline ==
    /\ Len(stack) > 0
    /\ Top.pc = "update"
    /\ Top.variant = "baseline"
    /\ stack' = Outer
    /\ lastOp' = [op |-> "notifyThrow", arg |-> Cur(Top), variant |-> Top.variant, before |-> observers]
    /\ ended' = Top
    /\ UNCHANGED <<observers, removed, notObserver>>

\* a catch block that logs and leaves the loop
updateThrowCaughtBreak ==
    /\ Len(stack) > 0
    /\ Top.pc = "update"
    /\ Top.variant = "catching"
    /\ stack' = Outer \o
          <<[Top EXCEPT !.pc = "loop", !.idx = Len(Top.arr),
                        !.out = @ \o <<[t |-> "threw", to |-> Cur(Top)],
                                        [t |-> "console.error",
                                         msg |-> "Error notifying observer:",
                                         error |-> [thrownBy |-> Cur(Top)]]>>]>>
    /\ lastOp' = [op |-> "caught", arg |-> Cur(Top), variant |-> Top.variant, before |-> <<>>]
    /\ ended' = NoCall
    /\ UNCHANGED <<observers, removed, notObserver>>

\* the running update throws inside try: catch logs it and the loop goes on
updateThrowCaught ==
    /\ Len(stack) > 0
    /\ Top.pc = "update"
    /\ Top.variant = "catching"
    /\ stack' = Outer \o
          <<[Top EXCEPT !.pc = "loop",
                        !.out = @ \o <<[t |-> "threw", to |-> Cur(Top)],
                                        [t |-> "console.error",
                                         msg |-> "Error notifying observer:",
                                         error |-> [thrownBy |-> Cur(Top)]]>>]>>
    /\ lastOp' = [op |-> "caught", arg |-> Cur(Top), variant |-> Top.variant, before |-> <<>>]
    /\ ended' = NoCall
    /\ UNCHANGED <<observers, removed, notObserver>>

\* the iterator is exhausted: notify returns
AboutToReturn(f) == f.pc = "loop" /\ f.idx >= Len(f.arr)

\* a notify that drops its listeners once they have been notified
notifyReturnOnce ==
    /\ Len(stack) > 0
    /\ AboutToReturn(Top)
    /\ stack' = Outer
    /\ observers' = <<>>
    /\ lastOp' = [op |-> "notifyReturn", arg |-> "", variant |-> Top.variant, before |-> <<>>]
    /\ ended' = NoCall
    /\ UNCHANGED <<removed, notObserver>>

notifyReturn ==
    /\ Len(stack) > 0
    /\ AboutToReturn(Top)
    /\ stack' = Outer
    /\ lastOp' = [op |-> "notifyReturn", arg |-> "", variant |-> Top.variant, before |-> <<>>]
    /\ ended' = NoCall
    /\ UNCHANGED <<observers, removed, notObserver>>

NextObserver ==
    \/ \E o \in Listeners : subscribe(o)
    \/ \E o \in Listeners : unsubscribe(o)
    \/ \E p \in Payloads : notify(p[1], p[2])
    \/ \E p \in Payloads : notifyCatching(p[1], p[2])
    \/ notifyNext
    \/ updateReturn
    \/ updateThrowBaseline
    \/ updateThrowCaught
    \/ notifyReturn

SpecObserver == InitObserver /\ [][NextObserver]_vars

(***************************************************************************)
(* The two dispatch operations on their own: Registry.speak on a Registry  *)
(* built from any handlers, and baseline notify on a subject with any      *)
(* subscribers whose listeners call neither subscribe nor unsubscribe.     *)
(***************************************************************************)
\* the subscriber sequences subscribe can build: no listener twice
Subscribed ==
    {arr \in BoundedSeq(Listeners, Cardinality(Listeners)) :
        \A i, j \in DOMAIN arr : arr[i] = arr[j] => i = j}

InitDispatch ==
    /\ stack = <<>>
    /\ removed = {}
    /\ lastOp = NoOp
    /\ ended = NoCall
    /\ LoggerIdle
    /\ UploadIdle
    /\ \/ observers = <<>> /\ animals \in BoundedSeq(AnimalPool, MaxAnimals)
       \/ observers \in Subscribed /\ animals = <<>>
    /\ handlers = Registry(animals)
    /\ calls = <<>>
    /\ console = <<>>
    /\ NoMutation

NextDispatch ==
    \/ \E key \in Keys : speak(key)
    \/ speakResume
    \/ \E p \in Payloads : notify(p[1], p[2])
    \/ notifyNext
    \/ updateReturn
    \/ updateThrowBaseline
    \/ notifyReturn

SpecDispatch == InitDispatch /\ [][NextDispatch]_vars

(***************************************************************************)
(* Properties of NotifierSubject.                                          *)
(***************************************************************************)
Frames == {stack[i] : i \in DOMAIN stack}
NoDuplicates(arr) == \A i, j \in DOMAIN arr : arr[i] = arr[j] => i = j
UpdatePos(f, l) == {k \in DOMAIN f.out : f.out[k].t = "update" /\ f.out[k].to = l}
EndPos(f, l) == {k \in DOMAIN f.out : f.out[k].t \in {"returned", "threw"} /\ f.out[k].to = l}
Threw(f) == {f.out[k].to : k \in {j \in DOMAIN f.out : f.out[j].t = "threw"}}

\* C1 (as claimed): snapshot rule.  The listeners one notify call delivers to
\* are exactly the members of observers when the call was entered; a
\* listener subscribed during the call gets no update in that call.
C1_SnapshotRule ==
    \A f \in Frames :
        /\ DeliveredTo(f) \subseteq Range(f.entry)
        /\ AboutToReturn(f) => DeliveredTo(f) = Range(f.entry)

\* the updates of l a call still has ahead of it
Remaining(f, l) == Cardinality({k \in DOMAIN f.arr : k > f.idx /\ f.arr[k] = l})

\* C2: when unsubscribe(B) is called during a notify call in which B was
\* subscribed at entry and not yet delivered to, the call goes on unaffected:
\* at every moment each listener subscribed at entry, B included, has had its
\* one update or still has exactly one ahead, so that when the call returns
\* each of them has received exactly one update (none skipped, none twice).
C2_UnsubscribeKeepsDelivery ==
    \A f \in Frames :
        f.early # {} =>
            /\ \A l \in Range(f.entry) : Count(f, l) + Remaining(f, l) = 1
            /\ AboutToReturn(f) => \A l \in Range(f.entry) : Count(f, l) = 1

C2_Witness ==
    /\ Len(stack) > 0
    /\ AboutToReturn(Top)
    /\ Len(Top.entry) = 3
    /\ Top.early # {}
    /\ \A l \in Top.early : Count(Top, l) = 1

\* C3: no listener occurs twice in observers, in any reachable state, and a
\* subscribe of an already subscribed listener leaves observers unchanged.
C3_NoDuplicates ==
    /\ NoDuplicates(observers)
    /\ (lastOp.op = "subscribe" /\ includes(lastOp.before, lastOp.arg))
          => observers = lastOp.before

C3_Witness ==
    /\ lastOp.op = "subscribe"
    /\ includes(lastOp.before, lastOp.arg)
    /\ Len(stack) > 0
    /\ Len(observers) = 2

\* C4 (as claimed): a notify call that returns has invoked update exactly once
\* on every listener subscribed when it was called and on no other listener,
\* each time with the event and data of the call.
C4_ExactlyOnceEach ==
    \A f \in Frames :
        AboutToReturn(f) =>
            /\ \A l \in Listeners :
                  Count(f, l) = IF l \in Range(f.entry) THEN 1 ELSE 0
            /\ \A k \in DOMAIN Deliveries(f) :
                  /\ Deliveries(f)[k].event = f.event
                  /\ Deliveries(f)[k].content = f.content

\* C5: a notify call entered after unsubscribe(l) does not deliver to l unless
\* l was subscribed again; a call that returns has delivered to every listener
\* subscribed at its entry; unsubscribe(l) leaves exactly the other listeners,
\* and unsubscribe of a listener that is not subscribed leaves observers
\* unchanged.
C5_UnsubscribeStopsDelivery ==
    /\ \A f \in Frames :
          /\ \A l \in f.gone : l \notin DeliveredTo(f)
          /\ AboutToReturn(f) => Range(f.entry) \subseteq DeliveredTo(f)
    /\ lastOp.op = "unsubscribe" =>
          /\ Range(observers) = Range(lastOp.before) \ {lastOp.arg}
          /\ ~includes(lastOp.before, lastOp.arg) => observers = lastOp.before

C5_Witness ==
    /\ Len(stack) > 0
    /\ AboutToReturn(Top)
    /\ Top.gone = {"Dat"}
    /\ Top.entry = <<"Cuong">>
    /\ DeliveredTo(Top) = {"Cuong"}

C17_FailFast ==
    lastOp.op = "notifyThrow" =>
        /\ ended.variant = "baseline"
        /\ Len(stack) = 0
        /\ observers = lastOp.before
        /\ ended.idx \in DOMAIN ended.arr
        /\ ended.arr[ended.idx] = lastOp.arg
        /\ Len(Deliveries(ended)) = ended.idx
        /\ \A k \in 1..ended.idx : Deliveries(ended)[k].to = ended.arr[k]
        /\ \A k \in (ended.idx + 1)..Len(ended.arr) : Count(ended, ended.arr[k]) = 0
        /\ ended.out[Len(ended.out)].t = "update"
        /\ ended.out[Len(ended.out)].to = lastOp.arg

C17_Witness ==
    /\ lastOp.op = "notifyThrow"
    /\ lastOp.arg = "Cuong"
    /\ ended.entry = <<"Dat", "Cuong", "Linh">>
    /\ observers = <<"Dat", "Cuong", "Linh">>
    /\ DeliveredTo(ended) = {"Dat", "Cuong"}

\* a comes before b in arr
Precedes(arr, a, b) == \E i, j \in DOMAIN arr : i < j /\ arr[i] = a /\ arr[j] = b

\* C18: observers keeps first-subscription order.  subscribe and unsubscribe
\* keep the relative order of the listeners that stay; a subscribe of a
\* present listener leaves it where it is; unsubscribe(l) leaves exactly the
\* others; a listener that is not present (never subscribed, or unsubscribed
\* before) is placed last by subscribe.
C18_FirstSubscriptionOrder ==
    lastOp.op \in {"subscribe", "unsubscribe"} =>
        /\ \A a, b \in Range(observers) \cap Range(lastOp.before) :
              Precedes(observers, a, b) <=> Precedes(lastOp.before, a, b)
        /\ lastOp.op = "unsubscribe" =>
              /\ Len(observers) = Cardinality(Range(lastOp.before) \ {lastOp.arg})
              /\ Range(observers) = Range(lastOp.before) \ {lastOp.arg}
        /\ (lastOp.op = "subscribe" /\ includes(lastOp.before, lastOp.arg)) =>
              \A i \in DOMAIN lastOp.before :
                  lastOp.before[i] = lastOp.arg => (i \in DOMAIN observers /\ observers[i] = lastOp.arg)
        /\ (lastOp.op = "subscribe" /\ ~includes(lastOp.before, lastOp.arg)) =>
              /\ Len(observers) = Len(lastOp.before) + 1
              /\ observers[Len(observers)] = lastOp.arg

\* Dat, first at the entry of the running notify call, was unsubscribed and
\* subscribed again during it
C18_Witness ==
    /\ lastOp.op = "subscribe"
    /\ lastOp.arg = "Dat"
    /\ Len(stack) > 0
    /\ Top.entry = <<"Dat", "Cuong", "Linh">>
    /\ lastOp.before = <<"Cuong", "Linh">>
    /\ observers = <<"Cuong", "Linh", "Dat">>

(***************************************************************************)
(* Properties of Registry.                                                 *)
(***************************************************************************)
RegisteredKeys == {animals[i].key : i \in DOMAIN animals}
DistinctKeys == \A i, j \in DOMAIN animals : animals[i].key = animals[j].key => i = j
HandlerFor(key) == CHOOSE a \in Range(animals) : a.key = key

\* C8: in a Registry built from handlers with distinct keys, speak(k) for a
\* registered key k invokes the handler whose key is k, once, and no other.
C8_DispatchByKey ==
    DistinctKeys =>
        \A i \in DOMAIN calls :
            calls[i].key \in RegisteredKeys =>
                /\ calls[i].invoked = <<HandlerFor(calls[i].key).id>>
                /\ calls[i].logged = Says(HandlerFor(calls[i].key))
                /\ calls[i].state \in {"awaiting", SpeakPromise(HandlerFor(calls[i].key)).state}

C8_Witness ==
    /\ animals = <<Dog, Cat>>
    /\ Len(calls) = 2
    /\ calls[1].key = "cat" /\ calls[1].state = "fulfilled"
    /\ calls[2].key = "dog" /\ calls[2].state = "fulfilled"
    /\ console = <<"meo meo", "gau gau">>

\* C9 (as claimed): speak(key) for a key that was never registered completes
\* normally, reports 'handler not found!' and invokes no handler.
C9_UnknownKeyNotFound ==
    \A i \in DOMAIN calls :
        calls[i].key \notin RegisteredKeys =>
            /\ calls[i].state = "fulfilled"
            /\ calls[i].logged = <<"handler not found!">>
            /\ calls[i].invoked = <<>>

LastGiven(key) ==
    animals[CHOOSE i \in DOMAIN animals :
               /\ animals[i].key = key
               /\ \A j \in DOMAIN animals : animals[j].key = key => j <= i]

\* C19: the baseline constructor accepts handlers with equal keys; afterwards
\* every given key maps to one handler, the last one given with that key (so a
\* key given once maps to its only handler), and speak(key) invokes that
\* handler, once, and no other.
C19_LastGivenWins ==
    /\ \A key \in RegisteredKeys : lookup(key) = LastGiven(key)
    /\ \A i \in DOMAIN calls :
          calls[i].key \in RegisteredKeys => calls[i].invoked = <<LastGiven(calls[i].key).id>>

C19_Witness ==
    /\ animals = <<Dog, Pup>>
    /\ Len(calls) = 2
    /\ calls[1].key = "dog" /\ calls[1].invoked = <<"pup">> /\ calls[1].state = "fulfilled"
    /\ calls[2].key = "cat" /\ calls[2].invoked = <<>>
    /\ console = <<"gau gau gau", "handler not found!">>

AnimalWithId(id) == CHOOSE a \in AnimalPool : a.id = id

\* C13: when the speak of the handler that Registry.speak(key) awaits fails,
\* the promise of Registry.speak(key) rejects with the handler's own error;
\* the handler was invoked once (no retry), nothing was logged in its place,
\* and handlers is still what the constructor built.
C13_HandlerFailurePropagates ==
    /\ handlers = Registry(animals)
    /\ \A i \in DOMAIN calls :
          (calls[i].invoked # <<>> /\ AnimalWithId(calls[i].invoked[1]).fails) =>
              /\ Len(calls[i].invoked) = 1
              /\ calls[i].logged = <<>>
              /\ calls[i].state \in {"awaiting", "rejected"}
              /\ calls[i].state = "rejected" =>
                    calls[i].value = ErrorOf(AnimalWithId(calls[i].invoked[1]))

C13_Witness ==
    /\ animals = <<Dog, Bird>>
    /\ Len(calls) = 2
    /\ calls[1].key = "bird" /\ calls[1].state = "rejected" /\ calls[1].value = ErrorOf(Bird)
    /\ calls[2].key = "dog" /\ calls[2].state = "fulfilled"
    /\ handlers = Registry(<<Dog, Bird>>)
    /\ console = <<"gau gau">>

\* the output of a sequence of speak calls, call by call
RECURSIVE Outputs(_)
Outputs(cs) == IF cs = <<>> THEN <<>> ELSE Head(cs).logged \o Outputs(Tail(cs))

\* C23: speak calls made in a row without awaiting their promises write their
\* outputs (the handler's line or 'handler not found!') in the order of the
\* calls, whichever of the promises are settled by then.
C23_OutputsInCallOrder ==
    /\ console = Outputs(calls)
    /\ \A i \in DOMAIN calls :
          \/ calls[i].logged = <<"handler not found!">> /\ calls[i].invoked = <<>>
          \/ calls[i].logged = <<>> /\ calls[i].state \in {"awaiting", "rejected"}
          \/ /\ calls[i].invoked # <<>>
             /\ calls[i].logged = <<AnimalWithId(calls[i].invoked[1]).sound>>

\* the source's usage (cat, then dog, neither awaited), before any promise is
\* settled
C23_Witness ==
    /\ animals = <<Dog, Cat>>
    /\ Len(calls) = 2
    /\ calls[1].key = "cat" /\ calls[1].state = "awaiting"
    /\ calls[2].key = "dog" /\ calls[2].state = "awaiting"
    /\ console = <<"meo meo", "gau gau">>

(***************************************************************************)
(* Properties of the dispatch operations.                                  *)
(***************************************************************************)
\* C24 (as claimed): speak leaves handlers as it was for every key, notify
\* leaves observers as it was, and nothing is written but by an invoked
\* handler or listener: a speak call that invoked no handler wrote nothing.
C24_OnlyHandlerEffects ==
    /\ handlers = Registry(animals)
    /\ \A i \in DOMAIN stack : observers = stack[i].entry
    /\ \A i \in DOMAIN calls : calls[i].invoked = <<>> => calls[i].logged = <<>>

\* C24 (amended): no step of speak changes handlers (so no key's value
\* changes) and no step of notify changes observers; what a step writes to
\* the console is the output of the handler the new speak call invoked, or,
\* when that call invoked no handler, speak's own line 'handler not found!'.
C24_DispatchReadOnly ==
    [][/\ observers' = observers
       /\ handlers' = handlers
       /\ \A key \in Keys : GetProp(handlers', key) = GetProp(handlers, key)
       /\ console' # console =>
             /\ Len(calls') = Len(calls) + 1
             /\ console' = console \o calls'[Len(calls')].logged
             /\ calls'[Len(calls')].invoked = <<>> =>
                   calls'[Len(calls')].logged = <<"handler not found!">>
             /\ calls'[Len(calls')].invoked # <<>> =>
                   calls'[Len(calls')].logged = Says(AnimalWithId(calls'[Len(calls')].invoked[1]))
      ]_vars

\* a notify over three listeners has returned and a speak call has found no
\* handler
C24_Witness ==
    /\ lastOp.op = "notifyReturn"
    /\ observers = <<"Dat", "Cuong", "Linh">>
    /\ Len(calls) = 1
    /\ calls[1].invoked = <<>>
    /\ calls[1].logged = <<"handler not found!">>
    /\ handlers = EmptyObject

(***************************************************************************)
(* Properties of the Registry with dynamic registration.                   *)
(***************************************************************************)
\* C11 (as claimed): a speak(k) made after unregister(k) (and before any
\* register at k) is rejected with the not-found error and invokes no handler;
\* unregister never throws, and unregister of a key that is not registered
\* leaves handlers as it was.
C11_UnregisteredKeyNotFound ==
    /\ \A i \in DOMAIN calls :
          calls[i].unregd =>
              /\ calls[i].state = "rejected"
              /\ calls[i].value = NotFoundError(calls[i].key)
              /\ calls[i].invoked = <<>>
    /\ lastReg.op = "unregister" =>
          /\ ~lastReg.threw
          /\ \A key \in Keys \ {lastReg.key} :
                GetProp(handlers, key) = GetProp(lastReg.before, key)
          /\ lastReg.key \notin OwnKeys(lastReg.before) => handlers = lastReg.before

\* C12: register of a handler whose key is registered throws and leaves
\* handlers as it was, whether called directly or by the constructor (which
\* then throws too); a register that does not throw binds its key to the
\* handler and changes no other key.
C12_StrictRegistration ==
    /\ lastReg.op = "register" =>
          /\ lastReg.key \in OwnKeys(lastReg.before) =>
                (lastReg.threw /\ handlers = lastReg.before)
          /\ lastReg.threw => handlers = lastReg.before
          /\ ~lastReg.threw =>
                /\ GetProp(handlers, lastReg.key).id = lastReg.id
                /\ \A key \in Keys \ {lastReg.key} :
                      GetProp(handlers, key) = GetProp(lastReg.before, key)
    /\ lastReg.op = "constructor" =>
          /\ ~DistinctKeys => lastReg.threw
          /\ \A key \in OwnKeys(handlers) :
                \E i \in DOMAIN animals :
                    /\ handlers.own[key] = animals[i]
                    /\ \A j \in 1..(i - 1) : animals[j].key # key

\* register(pup) after Dog was registered under the same key
C12_Witness ==
    /\ animals = <<Dog, Cat>>
    /\ lastReg.op = "register"
    /\ lastReg.id = "pup"
    /\ lastReg.threw
    /\ GetProp(handlers, "dog") = Dog
    /\ GetProp(handlers, "cat") = Cat

\* C20: what a speak call does is decided by handlers as it was at the call.
\* A key bound to a handler then: that handler is invoked, once, and the call
\* ends as that handler's promise does, whatever register and unregister do
\* while the call awaits; a key with no value then: the call is rejected with
\* the not-found error.
C20_BindingAtCallDecides ==
    \A i \in DOMAIN calls :
        LET bound == GetProp(calls[i].entry, calls[i].key) IN
        /\ bound.t = "animal" =>
              /\ calls[i].invoked = <<bound.id>>
              /\ calls[i].logged = Says(bound)
              /\ calls[i].state \in {"awaiting", SpeakPromise(bound).state}
              /\ calls[i].state # "awaiting" => calls[i].value = SpeakPromise(bound).value
        /\ Falsy(bound) =>
              /\ calls[i].invoked = <<>>
              /\ calls[i].state = "rejected"
              /\ calls[i].value = NotFoundError(calls[i].key)

\* speak('dog') awaited Dog while 'dog' was unregistered and Pup registered
\* there; the speak('dog') made afterwards reaches Pup
C20_Witness ==
    /\ Len(calls) = 2
    /\ calls[1].key = "dog" /\ calls[1].invoked = <<"dog">> /\ calls[1].state = "fulfilled"
    /\ calls[1].during = 2
    /\ GetProp(handlers, "dog") = Pup
    /\ calls[2].key = "dog" /\ calls[2].invoked = <<"pup">>
    /\ console = <<"gau gau", "gau gau gau">>

\* C21 (as claimed): getKeys() returns the keys that have a handler at the
\* call, each once, in insertion order; two calls with no register or
\* unregister between them return the same sequence.
C21_KeysInInsertionOrder ==
    /\ \A i \in DOMAIN listed :
          /\ Range(listed[i].keys) = {k \in ListedKeys : GetProp(listed[i].entry, k).t = "animal"}
          /\ NoDuplicates(listed[i].keys)
          /\ listed[i].keys = listed[i].entry.order
    /\ \A i, j \in DOMAIN listed : listed[i].at = listed[j].at => listed[i].keys = listed[j].keys

(***************************************************************************)
(* Properties of Logger.                                                   *)
(***************************************************************************)
\* C14: over any sequence of getInstance calls one Logger is constructed, by
\* the first call and not before it, and every call returns that instance.
C14_OneInstance ==
    /\ results = <<>> => (constructed = 0 /\ Falsy(instance))
    /\ results # <<>> => (constructed = 1 /\ instance = [t |-> "Logger", id |-> 1])
    /\ \A i \in DOMAIN results : results[i] = instance
    /\ \A i, j \in DOMAIN results : results[i] = results[j]
    /\ \A k \in DOMAIN logs : logs[k].on = 1

\* log1 and log2 of the source, and a third result, used for logging
C14_Witness ==
    /\ Len(results) = 3
    /\ constructed = 1
    /\ results[1] = results[2]
    /\ Len(logs) = 2
    /\ logs[1] = [via |-> 1, on |-> 1, line |-> <<"[LOG]: ", "Server started">>]
    /\ logs[2] = [via |-> 2, on |-> 1, line |-> <<"[LOG]: ", "User logged in">>]

\* C15 (as claimed): with threads running the lock-guarded getInstance step by
\* step, at most one Logger is ever constructed and every call returns that
\* one Logger, never an unset instance.
C15_ThreadSafe ==
    /\ constructed <= 1
    /\ \A i \in DOMAIN results :
          /\ results[i].t = "Logger"
          /\ results[i] = [t |-> "Logger", id |-> 1]

InvalidType == [t |-> "Error", id |-> "Invalid type"]

\* C16: getStrategy('local') returns the injected LocalUpload, getStrategy('s3')
\* the injected S3Upload, and for any other type it throws Error('Invalid
\* type'); upload with such a key throws the same error and calls upload on no
\* strategy; upload with a valid key calls upload on the selected strategy
\* alone, once, and ends as that call does (LocalUpload: "/uploads/" +
\* file.filename, S3Upload: the bucket URL + file.filename).
C16_StrategySelection ==
    \A i \in DOMAIN uploads :
        LET c == uploads[i] IN
        /\ (c.op = "getStrategy" /\ c.type = "local") => (~c.threw /\ c.value = localUpload)
        /\ (c.op = "getStrategy" /\ c.type = "s3") => (~c.threw /\ c.value = s3Upload)
        /\ c.type \notin {"local", "s3"} =>
              (c.threw /\ c.value = InvalidType /\ c.invoked = <<>>)
        /\ (c.op = "upload" /\ c.type = "local") =>
              /\ c.invoked = <<localUpload>>
              /\ c.file.t = "object" =>
                    (~c.threw /\ c.value = Concat("/uploads/", Filename(c.file)))
              /\ c.file.t = "undefined" => (c.threw /\ c.value.t = "TypeError")
        /\ (c.op = "upload" /\ c.type = "s3") =>
              /\ c.invoked = <<s3Upload>>
              /\ c.file.t = "object" =>
                    (~c.threw /\ c.value = Concat("https://s3.amazonaws.com/bucket/", Filename(c.file)))
              /\ c.file.t = "undefined" => (c.threw /\ c.value.t = "TypeError")

\* upload('ftp', file) throws, then upload('s3', file) with the source's file
C16_Witness ==
    /\ Len(uploads) = 2
    /\ uploads[1].op = "upload" /\ uploads[1].type = "ftp" /\ uploads[1].threw
    /\ uploads[1].value = InvalidType
    /\ uploads[2].op = "upload" /\ uploads[2].type = "s3"
    /\ uploads[2].value = Concat("https://s3.amazonaws.com/bucket/", "undefined")

====
